---- MODULE Spec2Model ----
(***************************************************************************)
(* The "Publish the Garden" command of the bridge plugin (src/src/main.ts, *)
(* current version, lines 43-308) with the two sinks Bridge.commit and     *)
(* Bridge.uploadSecret, as a state machine.  One publish run is a sequence *)
(* of steps guarded by pc; between runs the user edits the vault or runs   *)
(* the command "Add a UUID to the note" (lines 323-343).                   *)
(***************************************************************************)
EXTENDS Integers, Sequences, FiniteSets, Bags, TLC

(* ------------------------------ bounds --------------------------------- *)
\* Publish runs started in one behaviour.
MaxRuns == 2
\* User edits of the vault (between runs) in one behaviour.
MaxEdits == 1

(* ------------------------------ the vault ------------------------------ *)
\* Markdown files (vault.getMarkdownFiles()), by path.  "a.md" and
\* "dir/a.md" share the file name "a.md".
MdFiles == {"a.md", "dir/a.md", "b.md"}
\* Non-markdown files, by path.  Both share the file name "img.png".
Assets == {"img.png", "dir/img.png"}
AllFiles == MdFiles \cup Assets

\* TFile.name: the last segment of the path.
Name(f) ==
  CASE f = "a.md" -> "a.md"
    [] f = "dir/a.md" -> "a.md"
    [] f = "b.md" -> "b.md"
    [] f = "img.png" -> "img.png"
    [] f = "dir/img.png" -> "img.png"

\* TFile.extension.
Extension(f) == IF f \in MdFiles THEN "md" ELSE "png"

Names == {Name(f) : f \in AllFiles}

\* vault.getFileByPath(link): the file at exactly that path, or none.
\* The result is the set of files found (empty or a singleton).
getFileByPath(link) == {f \in AllFiles : f = link}

\* The references of a note body, in text order.  kind is the syntax of
\* the reference: "wikiImage" is ![[target]], "mdImage" is ![x](target),
\* "wiki" is [[target]] and "md" is [x](target).
Body(f) ==
  CASE f = "a.md" ->
         << [kind |-> "wikiImage", target |-> "img.png"],
            [kind |-> "wiki", target |-> "b"],
            [kind |-> "wikiImage", target |-> "b.md"] >>
    [] f = "dir/a.md" ->
         << [kind |-> "mdImage", target |-> "dir/img.png"],
            [kind |-> "md", target |-> "b.md"] >>
    [] f = "b.md" ->
         << [kind |-> "mdImage", target |-> "img.png"],
            [kind |-> "wikiImage", target |-> "missing.png"] >>

RECURSIVE SelectKind(_, _)
\* The targets of the references of one syntax, in text order
\* (body.matchAll(regex) mapped to match.last()).
SelectKind(refs, kind) ==
  IF refs = << >> THEN << >>
  ELSE LET rest == SelectKind(Tail(refs), kind)
       IN IF Head(refs).kind = kind THEN << Head(refs).target >> \o rest
          ELSE rest

\* links of lines 140-144 and 176-180: the embeds in wiki syntax, then the
\* embeds in markdown syntax.
EmbedLinks(f) == SelectKind(Body(f), "wikiImage") \o SelectKind(Body(f), "mdImage")

(* --------------------------- frontmatter values ------------------------ *)
\* The marker of a public post tag.
Marker == "snlx.net"
\* A post tag is a sequence of words; << >> is the absent or empty tag.
PostTags(f) ==
  IF f = "a.md" THEN { << >>, << "snlx.net" >>, << "blog", "snlx.net" >>, << "draft" >> }
  ELSE { << >>, << "snlx.net" >>, << "draft" >> }
\* postTag.contains("snlx.net")
Contains(postTag, word) == \E i \in 1..Len(postTag) : postTag[i] = word

\* An identifier is a pair; << >> is the absent or empty identifier.
NoUuid == << >>
FileIndex(f) == CASE f = "a.md" -> 1 [] f = "dir/a.md" -> 2 [] f = "b.md" -> 3
\* The identifier a user gave the note before the first run.
UserUuid(f) == << "user", FileIndex(f), 0 >>
\* crypto.randomUUID() called for file f in run r: a value different from
\* every other identifier (the callback draws at most once per file and run).
randomUUID(f, r) == << "random", FileIndex(f), r >>
\* crypto.randomUUID() called by the add-uuid command as the e-th user
\* action: a value different from every other identifier.
commandUUID(f, e) == << "command", FileIndex(f), e >>
\* The value of `find(...)?.uuid` when no candidate is found.
UndefinedUuid == << "undefined", 0, 0 >>

DefaultLayout == "base.njk"
DefaultUpdated == "1970-01-01"

\* The frontmatter of a note before the first run: every post tag with
\* and without an identifier.
InitialFrontmatter(f) ==
  { [post |-> p, uuid |-> u, name |-> "", layout |-> "",
     created |-> IF f = "a.md" THEN "2023-12-31" ELSE "",
     updated |-> CASE f = "a.md" -> "2024-01-01"
                   [] f = "dir/a.md" -> "2024-01-02"
                   [] f = "b.md" -> ""] :
      p \in PostTags(f), u \in {NoUuid, UserUuid(f)} }

\* The date a user edit writes into `updated`.
EditedDate == "2024-02-01"

(* ---------------------------- ledger values ---------------------------- *)
\* A value of the ledger document: undefined, a string or a number.
Undefined == [kind |-> "undefined", s |-> "", n |-> 0]
Str(s) == [kind |-> "string", s |-> s, n |-> 0]
Num(n) == [kind |-> "number", s |-> "", n |-> n]
NaN == [kind |-> "NaN", s |-> "", n |-> 0]

\* The unary plus of `+store[asset.name]`: undefined and a date string
\* give NaN, a number is itself.
ToNumber(v) == IF v.kind = "number" THEN v ELSE NaN

Abs(x) == IF x < 0 THEN -x ELSE x

\* unixtimeCloseEnough(a, b): a comparison with NaN is false.
unixtimeCloseEnough(a, b) ==
  /\ a.kind = "number"
  /\ b.kind = "number"
  /\ Abs(b.n - a.n) < 15 * 60

\* stat.mtime of every file before the first run.  The stat times are
\* millisecond timestamps (line 689 passes stat.ctime to new Date()).
InitialMtime == [f \in AllFiles |-> 1000000]
\* The amounts, in milliseconds, by which a user edit moves an asset's
\* stat.mtime.
MtimeDeltas == {899, 900, 900000}

(* ------------------------------- state --------------------------------- *)
VARIABLES
  fm,             \* frontmatter of every markdown file
  mtime,          \* stat.mtime of every file, in milliseconds
  bridgeSys,      \* TRUE when the file bridge-sys.md exists
  store,          \* the frontmatter of bridge-sys.md: file name -> value
  pc,             \* the position of the publish-garden callback
  pending,        \* notes whose processFrontMatter callback has not run
  notes,          \* notes.pub, notes.secret, notes.secretIds
  poll,           \* the counters pub and secret of the wait loop
  linkTree,       \* bag of edges [from, for]
  publicAssetSet, \* insertion-ordered set of files
  secretAssetSet, \* insertion-ordered set of files
  publicNotes, secretNotes, publicAssets, secretAssets,
  notices,        \* the kinds of Notice shown in the current run
  lastCommitSha,  \* commit read by Bridge.commit
  baseTreeSha,    \* tree of the commit read by Bridge.commit
  newTree,        \* the tree Bridge.commit created
  newCommit,      \* the commit Bridge.commit created
  blobQueue,      \* blob requests of Bridge.commit not yet answered
  tree,           \* tree entries of the answered blob requests
  uploadQueue,    \* uploadFile requests of Bridge.uploadSecret not yet answered
  branchHead,     \* remote: the commit refs/heads/main points to
  uploads,        \* remote: uploadFile requests answered in the current run
  runs, edits,    \* counters of the bounds
  fm0,            \* history: frontmatter when the current run started
  prevFm0,        \* history: frontmatter when the previous run started
  edited,         \* history: files the user changed since the previous run ended
  trace,          \* history: what the sinks did in the current run
  headAtStart,    \* history: branchHead when the current run started
  filterLog,      \* history: the decisions of the ledger filter, current run
  prevLog         \* history: the decisions of the ledger filter, previous run

vaultVars == << fm, mtime, bridgeSys, store >>
classVars == << pending, notes, poll >>
collectVars == << linkTree, publicAssetSet, secretAssetSet >>
batchVars == << publicNotes, secretNotes, publicAssets, secretAssets >>
commitVars == << lastCommitSha, baseTreeSha, newTree, newCommit >>
sinkVars == << commitVars, blobQueue, tree, uploadQueue, branchHead, uploads >>
histVars == << fm0, prevFm0, edited, headAtStart, filterLog, prevLog >>
vars == << vaultVars, pc, classVars, collectVars, batchVars, notices, sinkVars,
           runs, edits, histVars, trace >>

EmptyStore == [n \in Names |-> Undefined]
\* commit.tree.sha of the commit c.
TreeSha(c) == << "tree", c >>
\* The value of newTree and newCommit before the request is answered.
NoTree == [sha |-> << >>, base_tree |-> << >>, tree |-> << >>]
NoCommit == [sha |-> -1, tree |-> << >>, parents |-> << >>]
EmptyNotes == [pub |-> << >>, secret |-> << >>, secretIds |-> << >>]
EmptyTrace ==
  [commitInvoked |-> FALSE, failedAt |-> "", blobsPosted |-> 0,
   treeCreated |-> FALSE, commitCreated |-> FALSE, refUpdated |-> FALSE,
   secretInvoked |-> FALSE, secretFailed |-> FALSE, ledgerUpdates |-> 0,
   prevSucceeded |-> FALSE]

\* Both sinks were invoked in the run of the trace t and neither failed.
BothSucceeded(t) ==
  /\ t.commitInvoked
  /\ t.refUpdated
  /\ t.secretInvoked
  /\ ~t.secretFailed

Init ==
  /\ fm \in {g \in [MdFiles -> UNION {InitialFrontmatter(f) : f \in MdFiles}] :
               \A f \in MdFiles : g[f] \in InitialFrontmatter(f)}
  /\ mtime = InitialMtime
  /\ bridgeSys = FALSE
  /\ store = EmptyStore
  /\ pc = "idle"
  /\ pending = {}
  /\ notes = EmptyNotes
  /\ poll = [pub |-> 0, secret |-> 0]
  /\ linkTree = EmptyBag
  /\ publicAssetSet = << >>
  /\ secretAssetSet = << >>
  /\ publicNotes = << >>
  /\ secretNotes = << >>
  /\ publicAssets = << >>
  /\ secretAssets = << >>
  /\ notices = {}
  /\ lastCommitSha = 0
  /\ baseTreeSha = << >>
  /\ newTree = NoTree
  /\ newCommit = NoCommit
  /\ blobQueue = << >>
  /\ tree = << >>
  /\ uploadQueue = << >>
  /\ branchHead = 0
  /\ uploads = {}
  /\ runs = 0
  /\ edits = 0
  /\ fm0 = fm
  /\ prevFm0 = fm
  /\ edited = {}
  /\ trace = EmptyTrace
  /\ headAtStart = 0
  /\ filterLog = << >>
  /\ prevLog = << >>

(* --------------------------- user edits -------------------------------- *)
\* The vault before the first run is the choice of Init; the edits below
\* are those between two runs.
\* The user changes the `updated` field of a note between two runs.
EditUpdated(f) ==
  /\ pc = "idle"
  /\ runs > 0
  /\ edits < MaxEdits
  /\ fm[f].updated # EditedDate
  /\ fm' = [fm EXCEPT ![f].updated = EditedDate]
  /\ edited' = edited \cup {f}
  /\ edits' = edits + 1
  /\ UNCHANGED << mtime, bridgeSys, store, pc, classVars, collectVars, batchVars,
                  notices, sinkVars, runs, fm0, prevFm0, headAtStart,
                  filterLog, prevLog, trace >>

\* The user (or the file system) moves the modification time of an asset.
TouchAsset(a, d) ==
  /\ pc = "idle"
  /\ runs > 0
  /\ edits < MaxEdits
  /\ mtime' = [mtime EXCEPT ![a] = @ + d]
  /\ edited' = edited \cup {a}
  /\ edits' = edits + 1
  /\ UNCHANGED << fm, bridgeSys, store, pc, classVars, collectVars, batchVars,
                  notices, sinkVars, runs, fm0, prevFm0, headAtStart,
                  filterLog, prevLog, trace >>

\* The user changes the post tag of a note between two runs.
EditPost(f, p) ==
  /\ pc = "idle"
  /\ runs > 0
  /\ edits < MaxEdits
  /\ fm[f].post # p
  /\ fm' = [fm EXCEPT ![f].post = p]
  /\ edited' = edited \cup {f}
  /\ edits' = edits + 1
  /\ UNCHANGED << mtime, bridgeSys, store, pc, classVars, collectVars, batchVars,
                  notices, sinkVars, runs, fm0, prevFm0, headAtStart,
                  filterLog, prevLog, trace >>

(* ------------------------ add-uuid (323-343) --------------------------- *)
\* The frontmatter the callback of lines 334-340 leaves; fresh is the value
\* crypto.randomUUID() returns if it is called.
AddUuidTo(frontmatter, fresh) ==
  IF frontmatter.uuid # NoUuid THEN frontmatter
  ELSE [frontmatter EXCEPT !.uuid = fresh]

\* The command "Add a UUID to the note" with the note f open.
AddUuid(f) ==
  /\ pc = "idle"
  /\ runs > 0
  /\ edits < MaxEdits
  /\ fm' = [fm EXCEPT ![f] = AddUuidTo(@, commandUUID(f, edits + 1))]
  /\ notices' = IF fm[f].uuid # NoUuid THEN notices \cup {"Already has a UUID"}
                ELSE notices
  /\ edited' = edited \cup {f}
  /\ edits' = edits + 1
  /\ UNCHANGED << mtime, bridgeSys, store, pc, classVars, collectVars, batchVars,
                  sinkVars, runs, fm0, prevFm0, headAtStart, filterLog,
                  prevLog, trace >>

(* ------------------------ classification (59-100) ---------------------- *)
\* Branch with the public test as an equality with the marker.
BranchEquals(frontmatter) ==
  IF frontmatter.post = << Marker >> THEN "pub"
  ELSE IF frontmatter.post # << >> THEN "tag"
  ELSE IF frontmatter.uuid # NoUuid THEN "uuid"
  ELSE "private"

\* The branch of the if-chain of lines 69-93 a frontmatter takes.
Branch(frontmatter) ==
  IF Contains(frontmatter.post, Marker) THEN "pub"
  ELSE IF frontmatter.post # << >> THEN "tag"
  ELSE IF frontmatter.uuid # NoUuid THEN "uuid"
  ELSE "private"

\* Lines 95-99: the default layout.
WithLayout(frontmatter) ==
  IF frontmatter.layout # "" THEN frontmatter
  ELSE [frontmatter EXCEPT !.layout = DefaultLayout]

\* Normalize drawing a new identifier in the identifier branch as well.
NormalizeDrawsAgain(frontmatter, fileName, fresh) ==
  CASE Branch(frontmatter) = "pub" -> WithLayout(frontmatter)
    [] Branch(frontmatter) = "tag" ->
         WithLayout([frontmatter EXCEPT !.uuid = fresh, !.name = fileName,
                                        !.post = << >>])
    [] Branch(frontmatter) = "uuid" ->
         WithLayout([frontmatter EXCEPT !.uuid = fresh, !.name = fileName])
    [] OTHER -> frontmatter

\* Normalize without the assignment of line 72.
NormalizeNoUuid(frontmatter, fileName, fresh) ==
  CASE Branch(frontmatter) = "pub" -> WithLayout(frontmatter)
    [] Branch(frontmatter) = "tag" ->
         WithLayout([frontmatter EXCEPT !.name = fileName, !.post = << >>])
    [] Branch(frontmatter) = "uuid" ->
         WithLayout([frontmatter EXCEPT !.name = fileName])
    [] OTHER -> frontmatter

\* The frontmatter the callback of lines 59-100 leaves; fresh is the value
\* crypto.randomUUID() returns if it is called.
Normalize(frontmatter, fileName, fresh) ==
  CASE Branch(frontmatter) = "pub" -> WithLayout(frontmatter)
    [] Branch(frontmatter) = "tag" ->
         WithLayout([frontmatter EXCEPT !.uuid = fresh, !.name = fileName,
                                        !.post = << >>])
    [] Branch(frontmatter) = "uuid" ->
         WithLayout([frontmatter EXCEPT !.name = fileName])
    [] OTHER -> frontmatter

\* notes after the callback of lines 59-100 ran for file f with the
\* frontmatter before and after.
Pushed(ns, f, before, after) ==
  LET updated == IF before.updated # "" THEN before.updated ELSE DefaultUpdated
      meta == [file |-> f, updated |-> updated]
      id == [name |-> Name(f), uuid |-> after.uuid]
  IN CASE Branch(before) = "pub" -> [ns EXCEPT !.pub = Append(@, meta)]
       [] Branch(before) \in {"tag", "uuid"} ->
            [ns EXCEPT !.secret = Append(@, meta), !.secretIds = Append(@, id)]
       [] OTHER -> ns

\* The command starts: lines 47-57.
StartPublish ==
  /\ pc = "idle"
  /\ runs < MaxRuns
  /\ runs' = runs + 1
  /\ pc' = "classify"
  /\ pending' = MdFiles
  /\ notes' = EmptyNotes
  /\ poll' = [pub |-> 0, secret |-> 0]
  /\ linkTree' = EmptyBag
  /\ publicAssetSet' = << >>
  /\ secretAssetSet' = << >>
  /\ publicNotes' = << >>
  /\ secretNotes' = << >>
  /\ publicAssets' = << >>
  /\ secretAssets' = << >>
  /\ notices' = {}
  /\ lastCommitSha' = 0
  /\ baseTreeSha' = << >>
  /\ newTree' = NoTree
  /\ newCommit' = NoCommit
  /\ blobQueue' = << >>
  /\ tree' = << >>
  /\ uploadQueue' = << >>
  /\ uploads' = {}
  /\ fm0' = fm
  /\ prevFm0' = fm0
  /\ trace' = [EmptyTrace EXCEPT !.prevSucceeded = runs > 0 /\ BothSucceeded(trace)]
  /\ headAtStart' = branchHead
  /\ filterLog' = << >>
  /\ prevLog' = filterLog
  /\ UNCHANGED << vaultVars, branchHead, edits, edited >>

\* The processFrontMatter callback of one note: lines 59-100.  The host
\* writes the frontmatter the callback leaves; the callbacks of different
\* notes run in any order and Promise.all (line 55) waits for all of them.
Classify(f) ==
  /\ pc = "classify"
  /\ f \in pending
  /\ LET after == Normalize(fm[f], Name(f), randomUUID(f, runs))
     IN /\ fm' = [fm EXCEPT ![f] = after]
        /\ notes' = Pushed(notes, f, fm[f], after)
  /\ pending' = pending \ {f}
  /\ pc' = IF pending' = {} THEN "poll" ELSE "classify"
  /\ UNCHANGED << mtime, bridgeSys, store, poll, collectVars, batchVars, notices,
                  sinkVars, runs, edits, histVars, trace >>

\* One call of check(): lines 110-124.
Check ==
  /\ pc = "poll"
  /\ IF /\ poll.pub > 0
        /\ poll.secret > 0
        /\ poll.pub = Len(notes.pub)
        /\ poll.secret = Len(notes.secret)
     THEN pc' = "collectPublic" /\ UNCHANGED poll
     ELSE /\ poll' = [pub |-> Len(notes.pub), secret |-> Len(notes.secret)]
          /\ pc' = "pollWait"
  /\ UNCHANGED << vaultVars, pending, notes, collectVars, batchVars, notices,
                  sinkVars, runs, edits, histVars, trace >>

\* The timer of line 123 fires: check() is called again.
Timeout ==
  /\ pc = "pollWait"
  /\ pc' = "poll"
  /\ UNCHANGED << vaultVars, classVars, collectVars, batchVars, notices, sinkVars,
                  runs, edits, histVars, trace >>

(* ---------------------- links and assets (127-210) --------------------- *)
\* Set.add on an insertion-ordered set.
SetAdd(set, x) ==
  IF \E i \in 1..Len(set) : set[i] = x THEN set ELSE Append(set, x)

RECURSIVE PublicLinks(_, _, _)
\* links.forEach of lines 145-157 for the note currentFile: acc holds
\* linkTree and publicAssetSet.
PublicLinks(acc, currentFile, links) ==
  IF links = << >> THEN acc
  ELSE LET linkedFile == getFileByPath(Head(links))
           next ==
             IF \E file \in linkedFile : Extension(file) = "md"
             THEN [acc EXCEPT !.linkTree =
                     @ (+) SetToBag({[for |-> file, from |-> currentFile] :
                                       file \in linkedFile})]
             ELSE IF linkedFile # {}
             THEN [acc EXCEPT !.assets = SetAdd(@, CHOOSE file \in linkedFile : TRUE)]
             ELSE acc
       IN PublicLinks(next, currentFile, Tail(links))

RECURSIVE PublicCollect(_, _)
\* notes.pub.map of lines 138-159, in the order of notes.pub (the callback
\* does not suspend).
PublicCollect(acc, pub) ==
  IF pub = << >> THEN acc
  ELSE PublicCollect(PublicLinks(acc, Head(pub).file, EmbedLinks(Head(pub).file)),
                     Tail(pub))

RECURSIVE SecretLinks(_, _)
\* links.forEach of lines 181-184: every file found is an asset.
SecretLinks(assets, links) ==
  IF links = << >> THEN assets
  ELSE LET file == getFileByPath(Head(links))
           next == IF file # {} THEN SetAdd(assets, CHOOSE x \in file : TRUE)
                   ELSE assets
       IN SecretLinks(next, Tail(links))

\* notes.secretIds.find(candidate => candidate.name === name)?.uuid
FindUuid(secretIds, name) ==
  IF \E i \in 1..Len(secretIds) : secretIds[i].name = name
  THEN secretIds[CHOOSE i \in 1..Len(secretIds) :
                   /\ secretIds[i].name = name
                   /\ \A j \in 1..(i - 1) : secretIds[j].name # name].uuid
  ELSE UndefinedUuid

\* The filter of lines 201-210.
HasUuid(note) == note.uuid # UndefinedUuid

\* mkLink of lines 387-395 for every note of a list: one list item each.
mkLinks(list, className) ==
  [i \in 1..Len(list) |-> [note |-> list[i], className |-> className]]

\* fillTemplate, lines 367-379: the items of the navigation list of the
\* page rendered for the note at path.
fillTemplate(path) ==
  LET backLinks == << >>
      forwardLinks == << >>
  IN mkLinks(backLinks, "back") \o mkLinks(<< path >>, "current")
       \o mkLinks(forwardLinks, "forward")

\* Lines 127-169: the links and assets of the public notes, and publicNotes
\* (nav is the navigation list of the element's html).
\* `file` of a publicNotes element is not a field of the program's object:
\* it names the note the element was made from.
CollectPublic ==
  /\ pc = "collectPublic"
  /\ LET acc == PublicCollect([linkTree |-> EmptyBag, assets |-> << >>], notes.pub)
     IN /\ linkTree' = acc.linkTree
        /\ publicAssetSet' = acc.assets
  /\ publicNotes' = [i \in 1..Len(notes.pub) |->
                       [file |-> notes.pub[i].file,
                        name |-> Name(notes.pub[i].file),
                        updated |-> notes.pub[i].updated,
                        nav |-> fillTemplate(notes.pub[i].file)]]
  /\ pc' = "collectSecret"
  /\ UNCHANGED << vaultVars, classVars, secretAssetSet, secretNotes, publicAssets,
                  secretAssets, notices, sinkVars, runs, edits, histVars,
                  trace >>

\* The orders in which n suspended callbacks can resume.
Orders(n) == {p \in [1..n -> 1..n] : \A i, j \in 1..n : p[i] = p[j] => i = j}

RECURSIVE SecretCollect(_, _, _)
\* Lines 174-184 for the notes secret[order[k]], k = 1, 2, ...: each map
\* callback adds the files its note embeds when it resumes after its read.
SecretCollect(assets, secret, order) ==
  IF order = << >> THEN assets
  ELSE SecretCollect(SecretLinks(assets, EmbedLinks(secret[Head(order)].file)),
                     secret, Tail(order))

\* Lines 171-210: the assets of the secret notes, in the order their
\* callbacks resume, and secretNotes with their identifiers, those without
\* one removed with a Notice.
ResolveSecret ==
  /\ pc = "collectSecret"
  /\ \E order \in Orders(Len(notes.secret)) :
       secretAssetSet' = SecretCollect(<< >>, notes.secret, order)
  /\ LET all == [i \in 1..Len(notes.secret) |->
                   [file |-> notes.secret[i].file,
                    name |-> Name(notes.secret[i].file),
                    updated |-> notes.secret[i].updated,
                    uuid |-> FindUuid(notes.secretIds, Name(notes.secret[i].file))]]
     IN /\ secretNotes' = SelectSeq(all, HasUuid)
        /\ notices' = IF \E i \in 1..Len(all) : ~HasUuid(all[i])
                      THEN notices \cup {"Note without a UUID marked as secret"}
                      ELSE notices
  /\ pc' = "sentinel"
  /\ UNCHANGED << vaultVars, classVars, linkTree, publicAssetSet, publicNotes,
                  publicAssets, secretAssets, sinkVars, runs, edits, histVars,
                  trace >>

(* ----------------------- the ledger (212-279) -------------------------- *)
\* Sentinel creating bridge-sys.md without looking for it: an existing
\* file is replaced by a new one.
SentinelRecreates ==
  /\ pc = "sentinel"
  /\ bridgeSys' = TRUE
  /\ store' = EmptyStore
  /\ pc' = "ledger"
  /\ UNCHANGED << fm, mtime, classVars, collectVars, batchVars, notices, sinkVars,
                  runs, edits, histVars, trace >>

\* Lines 212-218: bridge-sys.md is created when it does not exist.
Sentinel ==
  /\ pc = "sentinel"
  /\ bridgeSys' = TRUE
  /\ store' = IF bridgeSys THEN store ELSE EmptyStore
  /\ pc' = "ledger"
  /\ UNCHANGED << fm, mtime, classVars, collectVars, batchVars, notices, sinkVars,
                  runs, edits, histVars, trace >>

\* store[note.name] === note.updated
NoteUnchanged(stored, updated) == stored = Str(updated)

\* unixtimeCloseEnough(+store[asset.name], asset.stat.mtime)
AssetUnchanged(stored, current) == unixtimeCloseEnough(ToNumber(stored), Num(current))

RECURSIVE FilterNotes(_, _, _)
\* The map and filter of lines 222-234 and 235-247 over the notes ns: the
\* store after it, the notes kept, and one log entry per note (what the
\* filter read, compared, decided and left in the store).
FilterNotes(acc, ns, kind) ==
  IF ns = << >> THEN acc
  ELSE LET note == Head(ns)
           stored == acc.store[note.name]
           unchanged == NoteUnchanged(stored, note.updated)
           after == IF unchanged THEN acc.store
                    ELSE [acc.store EXCEPT ![note.name] = Str(note.updated)]
           entry == [kind |-> kind, file |-> note.file, name |-> note.name,
                     stored |-> stored, current |-> Str(note.updated),
                     kept |-> ~unchanged, after |-> after[note.name]]
           next == [store |-> after,
                    kept |-> IF unchanged THEN acc.kept ELSE Append(acc.kept, note),
                    log |-> Append(acc.log, entry)]
       IN FilterNotes(next, Tail(ns), kind)

RECURSIVE FilterAssets(_, _, _, _)
\* The map and filter of lines 248-262 and 263-277 over the assets as,
\* with the modification times mt.
FilterAssets(acc, as, mt, kind) ==
  IF as = << >> THEN acc
  ELSE LET asset == Head(as)
           stored == acc.store[Name(asset)]
           current == mt[asset]
           unchanged == AssetUnchanged(stored, current)
           after == IF unchanged THEN acc.store
                    ELSE [acc.store EXCEPT ![Name(asset)] = Num(current)]
           entry == [kind |-> kind, file |-> asset, name |-> Name(asset),
                     stored |-> stored, current |-> Num(current),
                     kept |-> ~unchanged, after |-> after[Name(asset)]]
           next == [store |-> after,
                    kept |-> IF unchanged THEN acc.kept ELSE Append(acc.kept, asset),
                    log |-> Append(acc.log, entry)]
       IN FilterAssets(next, Tail(as), mt, kind)

\* The callback of lines 221-278 on the store st: the four filters in the
\* order of the code.
LedgerPass(st, pubNotes, secNotes, pubAssets, secAssets, mt) ==
  LET p1 == FilterNotes([store |-> st, kept |-> << >>, log |-> << >>],
                        pubNotes, "public note")
      p2 == FilterNotes([store |-> p1.store, kept |-> << >>, log |-> p1.log],
                        secNotes, "secret note")
      p3 == FilterAssets([store |-> p2.store, kept |-> << >>, log |-> p2.log],
                         pubAssets, mt, "public asset")
      p4 == FilterAssets([store |-> p3.store, kept |-> << >>, log |-> p3.log],
                         secAssets, mt, "secret asset")
  IN [store |-> p4.store, publicNotes |-> p1.kept, secretNotes |-> p2.kept,
      publicAssets |-> p3.kept, secretAssets |-> p4.kept, log |-> p4.log]

\* Ledger with the update filtering the notes only: the assets go to the
\* sinks as collected.
LedgerNotesOnly ==
  /\ pc = "ledger"
  /\ LET r == LedgerPass(store, publicNotes, secretNotes, << >>, << >>, mtime)
     IN /\ store' = r.store
        /\ publicNotes' = r.publicNotes
        /\ secretNotes' = r.secretNotes
        /\ publicAssets' = publicAssetSet
        /\ secretAssets' = secretAssetSet
        /\ filterLog' = r.log
  /\ trace' = [trace EXCEPT !.ledgerUpdates = @ + 1]
  /\ pc' = "publicSink"
  /\ UNCHANGED << fm, mtime, bridgeSys, classVars, collectVars, notices, sinkVars,
                  runs, edits, fm0, prevFm0, edited, headAtStart, prevLog >>

\* Lines 219-279: the one update of the frontmatter of bridge-sys.md.
Ledger ==
  /\ pc = "ledger"
  /\ LET r == LedgerPass(store, publicNotes, secretNotes, publicAssetSet,
                         secretAssetSet, mtime)
     IN /\ store' = r.store
        /\ publicNotes' = r.publicNotes
        /\ secretNotes' = r.secretNotes
        /\ publicAssets' = r.publicAssets
        /\ secretAssets' = r.secretAssets
        /\ filterLog' = r.log
  /\ trace' = [trace EXCEPT !.ledgerUpdates = @ + 1]
  /\ pc' = "publicSink"
  /\ UNCHANGED << fm, mtime, bridgeSys, classVars, collectVars, notices, sinkVars,
                  runs, edits, fm0, prevFm0, edited, headAtStart, prevLog >>

(* ------------------------ the sinks (281-306) -------------------------- *)
\* Lines 281-292: the public batch is committed when it is not empty.
PublicSink ==
  /\ pc = "publicSink"
  /\ IF Len(publicNotes) + Len(publicAssets) > 0
     THEN /\ notices' = notices \cup {"Public notes:", "Uploading to GitHub"}
          /\ trace' = [trace EXCEPT !.commitInvoked = TRUE]
          /\ pc' = "commitHead"
     ELSE /\ notices' = notices \cup {"No public notes were updated"}
          /\ UNCHANGED trace
          /\ pc' = "secretSink"
  /\ UNCHANGED << vaultVars, classVars, collectVars, batchVars, sinkVars, runs, edits, histVars >>

\* name.replace(".md", ".html"): the first ".md" of the name is replaced.
ReplaceMd(name) ==
  CASE name = "a.md" -> "a.html"
    [] name = "b.md" -> "b.html"
    [] OTHER -> name

\* Bridge.commit, lines 431-436: the head commit is read.  path is the
\* path of the tree entry the blob request returns (lines 449 and 471).
GetHead ==
  /\ pc = "commitHead"
  /\ lastCommitSha' = branchHead
  /\ baseTreeSha' = TreeSha(branchHead)
  /\ blobQueue' = [i \in 1..Len(publicNotes) |->
                     [kind |-> "note", name |-> publicNotes[i].name,
                      path |-> ReplaceMd(publicNotes[i].name),
                      file |-> publicNotes[i].file]]
                  \o [i \in 1..Len(publicAssets) |->
                        [kind |-> "asset", name |-> Name(publicAssets[i]),
                         path |-> Name(publicAssets[i]),
                         file |-> publicAssets[i]]]
  /\ tree' = << >>
  /\ pc' = "commitBlobs"
  /\ UNCHANGED << vaultVars, classVars, collectVars, batchVars, notices, newTree,
                  newCommit, uploadQueue, branchHead, uploads, runs, edits,
                  histVars, trace >>

\* Lines 438-479: one blob request is answered; Promise.all resolves when
\* the last one is.
PostBlob ==
  /\ pc = "commitBlobs"
  /\ blobQueue # << >>
  /\ tree' = Append(tree, Head(blobQueue))
  /\ blobQueue' = Tail(blobQueue)
  /\ trace' = [trace EXCEPT !.blobsPosted = @ + 1]
  /\ pc' = IF blobQueue' = << >> THEN "commitTree" ELSE "commitBlobs"
  /\ UNCHANGED << vaultVars, classVars, collectVars, batchVars, notices,
                  commitVars, uploadQueue, branchHead, uploads, runs,
                  edits, histVars >>

\* Lines 482-489: the tree is created.
PostTree ==
  /\ pc = "commitTree"
  /\ newTree' = [sha |-> TreeSha(lastCommitSha + 1), base_tree |-> baseTreeSha,
                 tree |-> tree]
  /\ trace' = [trace EXCEPT !.treeCreated = TRUE]
  /\ pc' = "commitCommit"
  /\ UNCHANGED << vaultVars, classVars, collectVars, batchVars, notices,
                  lastCommitSha, baseTreeSha, newCommit, blobQueue, tree,
                  uploadQueue, branchHead, uploads, runs, edits, histVars >>

\* PostCommit creating a commit without parents.
PostCommitOrphan ==
  /\ pc = "commitCommit"
  /\ newCommit' = [sha |-> lastCommitSha + 1, tree |-> newTree.sha,
                   parents |-> << >>]
  /\ trace' = [trace EXCEPT !.commitCreated = TRUE]
  /\ pc' = "commitRef"
  /\ UNCHANGED << vaultVars, classVars, collectVars, batchVars, notices,
                  lastCommitSha, baseTreeSha, newTree, blobQueue, tree,
                  uploadQueue, branchHead, uploads, runs, edits, histVars >>

\* Lines 490-498: the commit is created; its sha is one no commit of the
\* branch has.
PostCommit ==
  /\ pc = "commitCommit"
  /\ newCommit' = [sha |-> lastCommitSha + 1, tree |-> newTree.sha,
                   parents |-> << lastCommitSha >>]
  /\ trace' = [trace EXCEPT !.commitCreated = TRUE]
  /\ pc' = "commitRef"
  /\ UNCHANGED << vaultVars, classVars, collectVars, batchVars, notices,
                  lastCommitSha, baseTreeSha, newTree, blobQueue, tree,
                  uploadQueue, branchHead, uploads, runs, edits, histVars >>

\* Lines 499-505 and 289: the branch reference is moved to the new commit
\* and commit() returns.
PatchRef ==
  /\ pc = "commitRef"
  /\ branchHead' = newCommit.sha
  /\ trace' = [trace EXCEPT !.refUpdated = TRUE]
  /\ notices' = notices \cup {"Public notes uploaded"}
  /\ pc' = "secretSink"
  /\ UNCHANGED << vaultVars, classVars, collectVars, batchVars, commitVars,
                  blobQueue, tree, uploadQueue, uploads, runs, edits,
                  histVars >>

\* CommitThrows with the blob requests joined by Promise.allSettled: a
\* failed blob request is dropped and commit() goes on.
CommitThrowsSettled ==
  /\ pc \in {"commitHead", "commitBlobs", "commitTree", "commitCommit", "commitRef"}
  /\ trace' = [trace EXCEPT !.failedAt = pc]
  /\ IF pc = "commitBlobs" /\ blobQueue # << >>
     THEN /\ blobQueue' = Tail(blobQueue)
          /\ pc' = IF blobQueue' = << >> THEN "commitTree" ELSE "commitBlobs"
          /\ UNCHANGED edited
     ELSE /\ pc' = "idle"
          /\ edited' = {}
          /\ UNCHANGED blobQueue
  /\ UNCHANGED << vaultVars, classVars, collectVars, batchVars, notices,
                  commitVars, tree, uploadQueue, branchHead, uploads, runs,
                  edits, fm0, prevFm0, headAtStart, filterLog, prevLog >>

\* A request of Bridge.commit fails: the await throws, commit() throws, and
\* line 288 has no handler, so the callback ends there.
CommitThrows ==
  /\ pc \in {"commitHead", "commitBlobs", "commitTree", "commitCommit", "commitRef"}
  /\ trace' = [trace EXCEPT !.failedAt = pc]
  /\ pc' = "idle"
  /\ edited' = {}
  /\ UNCHANGED << vaultVars, classVars, collectVars, batchVars, notices, sinkVars,
                  runs, edits, fm0, prevFm0, headAtStart, filterLog,
                  prevLog >>

\* Lines 293-306 and 512-518: the secret batch is uploaded when it is not
\* empty.
SecretSink ==
  /\ pc = "secretSink"
  /\ IF Len(secretNotes) + Len(secretAssets) > 0
     THEN /\ notices' = notices \cup {"Secret notes:", "Uploading to api.snlx.net"}
          /\ trace' = [trace EXCEPT !.secretInvoked = TRUE]
          /\ uploadQueue' =
               [i \in 1..Len(secretNotes) |->
                  [kind |-> "note", uuid |-> secretNotes[i].uuid, name |-> "",
                   file |-> secretNotes[i].file]]
               \o [i \in 1..Len(secretAssets) |->
                     [kind |-> "asset", uuid |-> NoUuid,
                      name |-> Name(secretAssets[i]), file |-> secretAssets[i]]]
          /\ pc' = "uploading"
     ELSE /\ notices' = notices \cup {"No secret notes were updated"}
          /\ UNCHANGED << trace, uploadQueue >>
          /\ pc' = "finish"
  /\ UNCHANGED << vaultVars, classVars, collectVars, batchVars, commitVars,
                  blobQueue, tree, branchHead, uploads, runs, edits,
                  histVars >>

\* uploadFile, lines 522-535: one request is answered.
UploadFile ==
  /\ pc = "uploading"
  /\ uploadQueue # << >>
  /\ uploads' = uploads \cup {Head(uploadQueue)}
  /\ uploadQueue' = Tail(uploadQueue)
  /\ UNCHANGED << vaultVars, pc, classVars, collectVars, batchVars, notices,
                  commitVars, blobQueue, tree, branchHead, runs, edits,
                  histVars, trace >>

\* One fetch of uploadFile rejects: Promise.all of line 519 rejects.
UploadFileFails ==
  /\ pc = "uploading"
  /\ uploadQueue # << >>
  /\ uploadQueue' = Tail(uploadQueue)
  /\ trace' = [trace EXCEPT !.secretFailed = TRUE]
  /\ UNCHANGED << vaultVars, pc, classVars, collectVars, batchVars, notices,
                  commitVars, blobQueue, tree, branchHead, uploads, runs,
                  edits, histVars >>

\* Lines 300-303: uploadSecret settled; its rejection is caught.
SecretSettled ==
  /\ pc = "uploading"
  /\ uploadQueue = << >>
  /\ notices' = notices \cup {"Secret notes uploaded"}
                  \cup (IF trace.secretFailed THEN {"Failed"} ELSE {})
  /\ pc' = "finish"
  /\ UNCHANGED << vaultVars, classVars, collectVars, batchVars, sinkVars, runs, edits, histVars, trace >>

\* The callback returns.
Finish ==
  /\ pc = "finish"
  /\ pc' = "idle"
  /\ edited' = {}
  /\ UNCHANGED << vaultVars, classVars, collectVars, batchVars, notices, sinkVars,
                  runs, edits, fm0, prevFm0, headAtStart, filterLog,
                  prevLog, trace >>

(* --------------------------- specification ----------------------------- *)
Next ==
  \/ \E f \in MdFiles : EditUpdated(f)
  \/ \E a \in Assets, d \in MtimeDeltas : TouchAsset(a, d)
  \/ \E f \in MdFiles : \E p \in PostTags(f) : EditPost(f, p)
  \/ \E f \in MdFiles : AddUuid(f)
  \/ StartPublish
  \/ \E f \in MdFiles : Classify(f)
  \/ Check
  \/ Timeout
  \/ CollectPublic
  \/ ResolveSecret
  \/ Sentinel
  \/ Ledger
  \/ PublicSink
  \/ GetHead
  \/ PostBlob
  \/ PostTree
  \/ PostCommit
  \/ PatchRef
  \/ CommitThrows
  \/ SecretSink
  \/ UploadFile
  \/ UploadFileFails
  \/ SecretSettled
  \/ Finish

Spec == Init /\ [][Next]_vars

\* The steps of the publish-garden callback and of the requests it waits
\* for: the event loop runs every callback that is ready, and every host
\* and network call is answered (with a result or with a failure).
RunStep ==
  \/ \E f \in MdFiles : Classify(f)
  \/ Check
  \/ Timeout
  \/ CollectPublic
  \/ ResolveSecret
  \/ Sentinel
  \/ Ledger
  \/ PublicSink
  \/ GetHead
  \/ PostBlob
  \/ PostTree
  \/ PostCommit
  \/ PatchRef
  \/ CommitThrows
  \/ SecretSink
  \/ UploadFile
  \/ UploadFileFails
  \/ SecretSettled
  \/ Finish

\* Spec with a started run always taking its next step.
LiveSpec == Init /\ [][Next]_vars /\ WF_vars(RunStep)

(* ------------------------------ claims --------------------------------- *)
\* The note f is an element of the sequence seq of records with a field file.
HasFile(seq, f) == \E i \in 1..Len(seq) : seq[i].file = f

\* The callback of f has run in the current run (or the run that ended last).
Classified(f) == runs > 0 /\ f \notin pending

\* The user changed the frontmatter of f after the run that ended last.
UserTouched(f) == pc = "idle" /\ f \in edited

\* The uploadFile requests of the current run, answered or not.
Requests == uploads \cup {uploadQueue[i] : i \in 1..Len(uploadQueue)}

\* C1: a note whose post tag contains the public marker when the run starts
\* is pushed to notes.pub and not to notes.secret, keeps the identifier it
\* had (also none) until the user changes the note, and its identifier is
\* neither recorded in notes.secretIds nor the address of an uploadFile
\* request.
C1_PublicOnly ==
  \A f \in MdFiles :
    (Classified(f) /\ Contains(fm0[f].post, Marker)) =>
      /\ HasFile(notes.pub, f)
      /\ ~HasFile(notes.secret, f)
      /\ ~HasFile(secretNotes, f)
      /\ UserTouched(f) \/ fm[f].uuid = fm0[f].uuid
      /\ fm0[f].uuid # NoUuid =>
           /\ \A i \in 1..Len(notes.secretIds) : notes.secretIds[i].uuid # fm0[f].uuid
           /\ \A r \in Requests : r.uuid # fm0[f].uuid

\* A run with a public note that has an identifier went through the secret
\* sink with requests answered.
C1_Witness ==
  /\ pc = "finish"
  /\ uploads # {}
  /\ \E f \in MdFiles :
       /\ fm0[f].post = << "blog", "snlx.net" >>
       /\ fm0[f].uuid # NoUuid

\* C2: a note whose post tag is non-empty and does not contain the marker
\* has, after its callback and until the user changes the note, a non-empty
\* identifier and no post tag, and is in notes.secret; in the next run, if the user did not edit it in between,
\* it takes the identifier branch, is in notes.secret again and its
\* frontmatter is what it was when that run started.
C2_SecretThenStable ==
  \A f \in MdFiles :
    /\ (Classified(f) /\ fm0[f].post # << >> /\ ~Contains(fm0[f].post, Marker)) =>
         /\ UserTouched(f) \/ (fm[f].uuid # NoUuid /\ fm[f].post = << >>)
         /\ HasFile(notes.secret, f)
    /\ (/\ Classified(f)
        /\ pc # "idle"
        /\ runs >= 2
        /\ f \notin edited
        /\ prevFm0[f].post # << >>
        /\ ~Contains(prevFm0[f].post, Marker)) =>
         /\ fm0[f].post = << >>
         /\ fm0[f].uuid # NoUuid
         /\ fm[f] = fm0[f]
         /\ HasFile(notes.secret, f)

\* The second run over an unedited note that had the tag "draft" when the
\* first run started has come to its end.
C2_Witness ==
  /\ pc = "finish"
  /\ runs = 2
  /\ \E f \in MdFiles : f \notin edited /\ prevFm0[f].post = << "draft" >>

\* C3 (as claimed): a note with neither post tag nor identifier when the run
\* starts keeps its frontmatter and is in no note list, no asset set, no
\* edge of linkTree, no batch and no request of a sink.
C3_PrivateUntouched ==
  \A f \in MdFiles :
    (Classified(f) /\ pc # "idle" /\ Branch(fm0[f]) = "private") =>
      /\ fm[f] = fm0[f]
      /\ ~HasFile(notes.pub, f) /\ ~HasFile(notes.secret, f)
      /\ ~HasFile(publicNotes, f) /\ ~HasFile(secretNotes, f)
      /\ \A i \in 1..Len(publicAssetSet) : publicAssetSet[i] # f
      /\ \A i \in 1..Len(secretAssetSet) : secretAssetSet[i] # f
      /\ \A i \in 1..Len(publicAssets) : publicAssets[i] # f
      /\ \A i \in 1..Len(secretAssets) : secretAssets[i] # f
      /\ \A e \in BagToSet(linkTree) : e.from # f /\ e["for"] # f
      /\ ~HasFile(blobQueue, f) /\ ~HasFile(tree, f)
      /\ \A r \in Requests : r.file # f

\* C4 (as claimed): no edge of linkTree starts or ends at a note that is
\* private in the run.
C4_NoPrivateEdge ==
  runs > 0 =>
    \A e \in BagToSet(linkTree) :
      Branch(fm0[e.from]) # "private" /\ Branch(fm0[e["for"]]) # "private"

\* C5: when a blob request of commit() fails, the run creates no tree and
\* no commit, does not move the branch reference, and the branch head is
\* the one the run started with.
C5_BlobFailureAborts ==
  trace.failedAt = "commitBlobs" =>
    /\ ~trace.treeCreated
    /\ ~trace.commitCreated
    /\ ~trace.refUpdated
    /\ branchHead = headAtStart

\* A blob request failed after another one was answered.
C5_Witness ==
  /\ trace.failedAt = "commitBlobs"
  /\ trace.blobsPosted > 0
  /\ blobQueue # << >>

\* C6 (as claimed): when commit() failed in a run whose secret batch is not
\* empty, uploadSecret is invoked in that run.
C6_SecretSinkStillRuns ==
  (pc = "idle" /\ trace.failedAt # "" /\ Len(secretNotes) + Len(secretAssets) > 0) =>
    trace.secretInvoked

\* The entries of a log.
Entries(log) == {log[i] : i \in 1..Len(log)}
NoteKinds == {"public note", "secret note"}
AssetKinds == {"public asset", "secret asset"}

\* C7 (as claimed): a note filtered with the marker it was filtered with in
\* the previous run is reported unchanged and not kept; a note whose stored
\* marker differs from its marker (or is absent) is kept and the stored
\* marker becomes its marker.
C7_NoteMarker ==
  \A e \in Entries(filterLog) :
    e.kind \in NoteKinds =>
      /\ (\E p \in Entries(prevLog) :
            p.kind \in NoteKinds /\ p.file = e.file /\ p.current = e.current)
           => ~e.kept
      /\ e.stored # e.current => (e.kept /\ e.after = e.current)

\* Fifteen minutes in the unit of stat.mtime, the millisecond.
FifteenMinutes == 15 * 60 * 1000

\* The stored marker v is a modification time less than fifteen minutes
\* from the modification time t.
WithinWindow(v, t) == v.kind = "number" /\ Abs(t - v.n) < FifteenMinutes

\* C8 (as claimed): an asset whose modification time is less than fifteen
\* minutes from the stored marker is not kept; at fifteen minutes or more,
\* or without a stored modification time, it is kept and the stored marker
\* becomes its modification time.
C8_AssetWindow ==
  \A e \in Entries(filterLog) :
    e.kind \in AssetKinds =>
      IF WithinWindow(e.stored, e.current.n)
      THEN ~e.kept
      ELSE e.kept /\ e.after = e.current

\* C9 (as claimed): an asset that the public and the secret filter examined
\* in the previous run and examine in this run, and whose modification time
\* is less than fifteen minutes from the one of the previous run, is kept
\* by neither filter in this run.
C9_SharedAssetSkipped ==
  \A a \in Assets :
    (/\ \A k \in AssetKinds : \E e \in Entries(filterLog) : e.kind = k /\ e.file = a
     /\ \A k \in AssetKinds : \E p \in Entries(prevLog) :
          p.kind = k /\ p.file = a /\ WithinWindow(p.current, mtime[a])) =>
      \A e \in Entries(filterLog) : e.file = a => ~e.kept

\* The identifiers of the secret notes are resolved (line 210 is passed).
Resolved ==
  runs > 0 /\ pc \notin {"classify", "poll", "pollWait", "collectPublic", "collectSecret"}

\* C10: every secret note of the batch, and every note request of
\* uploadSecret, has an identifier that is defined and not empty; a note of
\* notes.secret whose identifier is not found is not in the batch and the
\* Notice of line 203 is shown.
C10_SecretHasUuid ==
  /\ \A r \in Requests : r.kind = "note" => r.uuid \notin {NoUuid, UndefinedUuid}
  /\ Resolved =>
       /\ \A i \in 1..Len(secretNotes) :
            secretNotes[i].uuid \notin {NoUuid, UndefinedUuid}
       /\ \A i \in 1..Len(notes.secret) :
            FindUuid(notes.secretIds, Name(notes.secret[i].file)) = UndefinedUuid =>
              /\ ~HasFile(secretNotes, notes.secret[i].file)
              /\ "Note without a UUID marked as secret" \in notices

\* uploadSecret was invoked with notes of both secret branches and a note
\* request was answered.
C10_Witness ==
  /\ pc = "uploading"
  /\ \E r \in uploads : r.kind = "note"
  /\ \E f \in MdFiles : Branch(fm0[f]) = "tag" /\ HasFile(secretNotes, f)
  /\ \E f \in MdFiles : Branch(fm0[f]) = "uuid" /\ HasFile(secretNotes, f)

\* The run that started last has ended.
RunEnded == pc = "idle" /\ runs > 0

\* C11 (as claimed): after a run, every artifact whose ledger entry the run
\* advanced to its current marker was uploaded by its sink in that run: a
\* public one is in the tree of the commit the branch was moved to, a
\* secret one is an answered uploadFile request.
C11_AdvancedOnlyIfUploaded ==
  RunEnded =>
    \A e \in Entries(filterLog) :
      e.kept =>
        IF e.kind \in {"public note", "public asset"}
        THEN trace.refUpdated /\ HasFile(newTree.tree, e.file)
        ELSE \E r \in uploads : r.file = e.file

\* C12 (as claimed): no step replaces the identifier of a note that has
\* one by a different identifier.
C12_IdentifierStable ==
  [][\A f \in MdFiles : fm[f].uuid # NoUuid => fm'[f].uuid = fm[f].uuid]_vars

\* C13 (as claimed): every publish run that starts comes to its end.
C13_RunTerminates == (pc # "idle") ~> (pc = "idle")

\* The positions of the callback after the update of bridge-sys.md.
AfterLedger ==
  {"publicSink", "commitHead", "commitBlobs", "commitTree", "commitCommit",
   "commitRef", "secretSink", "uploading", "finish"}

\* The log has an entry of the kind for the file, and the file is in the
\* batch exactly when the entry says it was kept.
Decided(kind, f, inBatch) ==
  \E e \in Entries(filterLog) : e.kind = kind /\ e.file = f /\ (e.kept <=> inBatch)

\* The elements of a sequence.
Range(seq) == {seq[i] : i \in 1..Len(seq)}

\* C14: in a run, bridge-sys.md is updated at most once and, from the end
\* of that update on, exactly once; a sink is invoked only after it; the
\* update decides every public note, secret note, public asset and secret
\* asset of the run (the batches are the artifacts it kept); and the ledger
\* changes in no other step.
C14_SingleLedgerUpdate ==
  /\ [](/\ trace.ledgerUpdates <= 1
        /\ (pc \in AfterLedger \/ RunEnded) <=> trace.ledgerUpdates = 1
        /\ (trace.commitInvoked \/ trace.secretInvoked) => trace.ledgerUpdates = 1
        /\ trace.ledgerUpdates = 1 =>
             /\ \A i \in 1..Len(notes.pub) :
                  Decided("public note", notes.pub[i].file,
                          HasFile(publicNotes, notes.pub[i].file))
             /\ \A i \in 1..Len(notes.secret) :
                  Decided("secret note", notes.secret[i].file,
                          HasFile(secretNotes, notes.secret[i].file))
             /\ \A a \in Range(publicAssetSet) :
                  Decided("public asset", a, a \in Range(publicAssets))
             /\ \A a \in Range(secretAssetSet) :
                  Decided("secret asset", a, a \in Range(secretAssets)))
  /\ [][store' # store => (pc = "ledger" /\ pc' = "publicSink")]_vars

\* Both sinks were invoked after an update that decided artifacts of all
\* four kinds and changed the ledger.
C14_Witness ==
  /\ pc = "uploading"
  /\ trace.commitInvoked
  /\ trace.secretInvoked
  /\ trace.ledgerUpdates = 1
  /\ \A k \in NoteKinds \cup AssetKinds : \E e \in Entries(filterLog) : e.kind = k
  /\ \E e \in Entries(filterLog) : ~e.kept

\* The current date of a run (`today` of lines 660-661), a date after every
\* date of the vault.
Today == "2024-03-01"

\* C15 (as claimed): after its callback, and until the user changes it, a
\* note classified public or secret has a creation date (the one it had, if
\* it had one), the current date as its update date, and a layout (the one
\* it had, or the default layout).
C15_Normalized ==
  \A f \in MdFiles :
    (Classified(f) /\ ~UserTouched(f) /\ Branch(fm0[f]) # "private") =>
      /\ fm[f].created # ""
      /\ fm0[f].created # "" => fm[f].created = fm0[f].created
      /\ fm[f].updated = Today
      /\ fm[f].layout = (IF fm0[f].layout # "" THEN fm0[f].layout ELSE DefaultLayout)

\* The files of the notes of a list of notes.
Files(ns) == {ns[i].file : i \in 1..Len(ns)}

\* The outcome C16 claims for the references extracted from the notes of a
\* class with the asset set assets: an edge and no asset for a markdown
\* target, an asset for another file, and nothing else recorded.
ResolutionOutcome(class, assets) ==
  /\ \A s \in class : \A i \in 1..Len(EmbedLinks(s)) :
       \A g \in getFileByPath(EmbedLinks(s)[i]) :
         IF Extension(g) = "md"
         THEN /\ BagIn([for |-> g, from |-> s], linkTree)
              /\ g \notin Range(assets)
         ELSE g \in Range(assets)
  /\ \A g \in Range(assets) :
       \E s \in class : \E i \in 1..Len(EmbedLinks(s)) : EmbedLinks(s)[i] = g

\* C16 (as claimed): once the references of the public and of the secret
\* notes are collected, each class has the outcome above, and every edge
\* leads from a note of a class to a markdown file it embeds.
C16_TargetResolution ==
  Resolved =>
    /\ ResolutionOutcome(Files(notes.pub), publicAssetSet)
    /\ ResolutionOutcome(Files(notes.secret), secretAssetSet)
    /\ \A e \in BagToSet(linkTree) :
         /\ e.from \in Files(notes.pub) \cup Files(notes.secret)
         /\ Extension(e["for"]) = "md"
         /\ \E i \in 1..Len(EmbedLinks(e.from)) : EmbedLinks(e.from)[i] = e["for"]

\* The targets of the link-style references of a note: [[target]] and
\* [x](target).
PageLinks(f) == SelectKind(Body(f), "wiki") \o SelectKind(Body(f), "md")

\* The markdown notes a raw target names, directly or with the markdown
\* extension appended.
NotesNamed(target) == {g \in MdFiles : g = target \/ g = target \o ".md"}

\* C17 (as claimed): once the references of the public notes are collected,
\* linkTree has an edge from every public note to every non-private note a
\* link-style reference of it names.
C17_PageLinkEdges ==
  Resolved =>
    \A s \in Files(notes.pub) : \A i \in 1..Len(PageLinks(s)) :
      \A g \in NotesNamed(PageLinks(s)[i]) :
        Branch(fm0[g]) # "private" => BagIn([for |-> g, from |-> s], linkTree)

\* The files of the public batch.
PublicBatch == Files(publicNotes) \cup Range(publicAssets)

\* C18: in a run of commit(), a blob is uploaded only after the head was
\* read; the tree is created only after every blob of the batch was
\* uploaded, over the tree of the head the run started with and with an
\* entry for every file of the batch; the commit is created after the tree,
\* points to it and has that head as its only parent; the branch reference
\* is moved last, to that commit, and is the head of the start until then.
C18_CommitOrder ==
  /\ trace.blobsPosted > 0 =>
       lastCommitSha = headAtStart /\ baseTreeSha = TreeSha(headAtStart)
  /\ trace.treeCreated =>
       /\ trace.blobsPosted = Len(publicNotes) + Len(publicAssets)
       /\ blobQueue = << >>
       /\ newTree.base_tree = TreeSha(headAtStart)
       /\ Files(newTree.tree) = PublicBatch
  /\ ~trace.treeCreated => newTree = NoTree
  /\ trace.commitCreated =>
       /\ trace.treeCreated
       /\ newCommit.tree = newTree.sha
       /\ newCommit.parents = << headAtStart >>
       /\ newCommit.sha # headAtStart
  /\ ~trace.commitCreated => newCommit = NoCommit
  /\ IF trace.refUpdated
     THEN trace.commitCreated /\ branchHead = newCommit.sha
     ELSE branchHead = headAtStart

\* The second run moved the branch to a commit on top of the commit of the
\* first run, with a note and an asset in its tree.
C18_Witness ==
  /\ trace.refUpdated
  /\ headAtStart = 1
  /\ branchHead = 2
  /\ \E i \in 1..Len(newTree.tree) : newTree.tree[i].kind = "note"
  /\ \E i \in 1..Len(newTree.tree) : newTree.tree[i].kind = "asset"

\* The edges of linkTree that satisfy a test, as a bag.
EdgesTo(f) ==
  [e \in {x \in BagToSet(linkTree) : x["for"] = f} |-> linkTree[e]]
EdgesFrom(f) ==
  [e \in {x \in BagToSet(linkTree) : x.from = f} |-> linkTree[e]]

\* The public notes are rendered (line 169 is passed).
Rendered == runs > 0 /\ pc \notin {"classify", "poll", "pollWait", "collectPublic"}

\* C19 (as claimed): the navigation list of a rendered public note has one
\* "back" item for every edge of linkTree to the note, then one "current"
\* item for the note itself, then one "forward" item for every edge from
\* the note.
C19_NavigationList ==
  Rendered =>
    \A i \in 1..Len(publicNotes) :
      LET note == publicNotes[i]
          back == BagCardinality(EdgesTo(note.file))
          forward == BagCardinality(EdgesFrom(note.file))
      IN /\ Len(note.nav) = back + 1 + forward
         /\ \A k \in 1..Len(note.nav) :
              note.nav[k].className =
                (IF k <= back THEN "back"
                 ELSE IF k = back + 1 THEN "current" ELSE "forward")
         /\ note.nav[back + 1].note = note.file

\* commit() made a request in the current run.
CommitRequested ==
  \/ trace.failedAt # ""
  \/ trace.blobsPosted > 0
  \/ trace.treeCreated \/ trace.commitCreated \/ trace.refUpdated
  \/ pc \in {"commitBlobs", "commitTree", "commitCommit", "commitRef"}

\* C20 (as claimed): a sink is invoked, and makes requests, only with a
\* batch that is not empty; and in a run that has ended, a class whose
\* batch was empty had no sink invocation, no request, and its Notice
\* "No ... notes were updated".
C20_EmptyBatchNoOp ==
  /\ trace.commitInvoked => Len(publicNotes) + Len(publicAssets) > 0
  /\ trace.secretInvoked => Len(secretNotes) + Len(secretAssets) > 0
  /\ CommitRequested => trace.commitInvoked
  /\ Requests # {} => trace.secretInvoked
  /\ RunEnded =>
       /\ Len(publicNotes) + Len(publicAssets) = 0 =>
            /\ ~trace.commitInvoked
            /\ "No public notes were updated" \in notices
       /\ Len(secretNotes) + Len(secretAssets) = 0 =>
            /\ ~trace.secretInvoked
            /\ "No secret notes were updated" \in notices

\* C21: the ledger is read and updated only when bridge-sys.md exists;
\* the file comes into existence only in the step of lines 212-218 and only
\* when it did not exist, and stays; that step leaves the ledger of an
\* existing file as it is, and no step removes an entry of the ledger.
C21_SentinelOnce ==
  /\ []((pc = "ledger" \/ trace.ledgerUpdates > 0) => bridgeSys)
  /\ [][/\ bridgeSys => bridgeSys'
        /\ bridgeSys' # bridgeSys => (pc = "sentinel" /\ ~bridgeSys)
        /\ (pc = "sentinel" /\ bridgeSys) => store' = store
        /\ \A n \in Names : store[n] # Undefined => store'[n] # Undefined]_vars

\* The second run is about to read the ledger the first run wrote, in the
\* file the first run created.
C21_Witness ==
  /\ runs = 2
  /\ pc = "ledger"
  /\ bridgeSys
  /\ \E n \in Names : store[n] # Undefined

\* The entry the filter of the kind logged for the file f.
EntryOf(kind, f) == CHOOSE e \in Entries(filterLog) : e.kind = kind /\ e.file = f

\* C22 (as claimed): an asset that is in the public and in the secret asset
\* set, and whose ledger entry before the public filter was absent or
\* fifteen minutes or more from its modification time, is in the public
\* and in the secret batch of the run.
C22_SharedAssetBothBatches ==
  trace.ledgerUpdates = 1 =>
    \A a \in Range(publicAssetSet) \cap Range(secretAssetSet) :
      ~WithinWindow(EntryOf("public asset", a).stored,
                    EntryOf("public asset", a).current.n) =>
        a \in Range(publicAssets) /\ a \in Range(secretAssets)

\* The files of the secret batch.
SecretBatch == Files(secretNotes) \cup Range(secretAssets)

\* C23 (as claimed): the Notice "Secret notes uploaded" is shown only in a
\* run in which no uploadFile request failed and every file of the secret
\* batch was uploaded; after a failed request the Notice "Failed" is shown
\* and "Secret notes uploaded" is not.
C23_SuccessNoticeOnlyOnSuccess ==
  /\ "Secret notes uploaded" \in notices =>
       /\ ~trace.secretFailed
       /\ \A f \in SecretBatch : \E r \in uploads : r.file = f
  /\ (trace.secretFailed /\ pc \in {"finish", "idle"}) =>
       /\ "Failed" \in notices
       /\ "Secret notes uploaded" \notin notices

\* The blob requests of the current run of commit(), answered or not.
TreeEntries == Range(tree) \cup Range(blobQueue)

\* C24 (as claimed): two secret notes of a batch have different
\* identifiers, also as addresses of their uploadFile requests; two public
\* notes of a batch have different tree paths; and two artifacts examined
\* by the ledger filter use different ledger entries.
C24_NoCollision ==
  /\ \A i, j \in 1..Len(secretNotes) :
       secretNotes[i].file # secretNotes[j].file =>
         secretNotes[i].uuid # secretNotes[j].uuid
  /\ \A r, q \in Requests :
       (r.kind = "note" /\ q.kind = "note" /\ r.file # q.file) => r.uuid # q.uuid
  /\ \A t, u \in TreeEntries :
       (t.kind = "note" /\ u.kind = "note" /\ t.file # u.file) => t.path # u.path
  /\ \A e, d \in Entries(filterLog) : e.file # d.file => e.name # d.name

\* C25 (as claimed): in a run that follows, with no change of a file in
\* between, a run in which both sinks succeeded, the ledger filter keeps
\* nothing and leaves every entry as it was, both batches are empty and no
\* sink is invoked.
C25_SecondRunIdempotent ==
  (/\ trace.prevSucceeded
   /\ edited = {}
   /\ pc \in AfterLedger) =>
     /\ \A e \in Entries(filterLog) : ~e.kept /\ e.after = e.stored
     /\ PublicBatch = {}
     /\ SecretBatch = {}
     /\ ~trace.commitInvoked
     /\ ~trace.secretInvoked

====
